---- MODULE Spec2Model ----
(***************************************************************************)
(* KWS-backend: rental of servers and containers on OpenStack nodes.       *)
(*                                                                         *)
(* The model has three kinds of state:                                     *)
(*   - the inventory (MySQL tables server, container, network, flavor,     *)
(*     node_network, node_flavor),                                         *)
(*   - the cloud (instances, containers, networks and flavors per node),   *)
(*   - one record per request worker (its position in the handler, its     *)
(*     arguments, the uncommitted rows of its SQLAlchemy session) and one   *)
(*     record for the scheduler process.                                   *)
(*                                                                         *)
(* Granularity: one action per cloud call or commit of a handler; the      *)
(* reads that precede a cloud call belong to the same action.  A session   *)
(* reads the committed tables plus its own pending rows (autoflush); rows  *)
(* added to a session reach the tables at commit, where the unique keys    *)
(* are enforced.  Every cloud call and every commit may fail.              *)
(***************************************************************************)
EXTENDS Integers, FiniteSets, Sequences, TLC

\* ------------------------------------------------------------- bounds
NumWorkers == 2
MaxDay == 2
MaxOps == 2

Procs == 1..NumWorkers
Days == 1..MaxDay
Names == {"a", "b"}
CustomNets == {"w1"}
CustomFlavors == {"f1"}

\* ------------------------------------------------------ configuration
Nodes == {"n1", "n2"}
ExternalNetwork == "ext"
DefaultInternalNetwork == "int"
DefaultNets == {ExternalNetwork, DefaultInternalNetwork}
DefaultFlavors == {"m1"}
FlavorNames == DefaultFlavors \cup CustomFlavors
NoNet == "None"

VARIABLES
    servers,       \* table server: rows [id, name, node, net, flv, end]
    containers,    \* table container: rows [id, name, node, net, end]
    networks,      \* table network: names (is_default is fixed per name)
    flavors,       \* table flavor: names
    nodeNetworks,  \* table node_network: <<node, network>>
    nodeFlavors,   \* table node_flavor: <<node, flavor>>
    cloudSrv,      \* instances named x on node n: "none", "one", "many"
    cloudCtr,      \* containers in the cloud: <<node, name>>
    cloudNets,     \* networks in the cloud: <<node, network>>
    cloudFlavors,  \* flavors in the cloud: <<node, flavor>>
    proc,          \* request workers
    sw,            \* the scheduler process
    last,          \* the latest response: [op, name, res, fault]
    ops,           \* requests and sweeps started so far
    reclaimStarted \* ids of the server records a return or a sweep has taken up

db == <<servers, containers, networks, flavors, nodeNetworks, nodeFlavors>>
cloud == <<cloudSrv, cloudCtr, cloudNets, cloudFlavors>>
vars == <<servers, containers, networks, flavors, nodeNetworks, nodeFlavors,
          cloudSrv, cloudCtr, cloudNets, cloudFlavors, proc, sw, last, ops,
          reclaimStarted>>

\* --------------------------------------------------------- the tables
\* Rows inserted by the handlers carry is_default = False; the rows of the
\* system networks and flavors are seeded with is_default = True.
IsDefaultNet(w) == w \in DefaultNets
IsDefaultFlavor(f) == f \in DefaultFlavors

\* id: primary key, autoincrement.  Only its freshness matters: the new id
\* is one that no row has and that no open session still refers to.
UsedIds ==
    {r.id : r \in servers \cup containers} \cup {proc[p].rid : p \in DOMAIN proc}
    \cup {r.id : r \in sw.delS \cup sw.delC}
NewId == CHOOSE i \in 1..(Cardinality(UsedIds) + 1) : i \notin UsedIds

\* Server.server_name: unique = True.
ServerNameFree_NoConstraint(rows, name) == TRUE
ServerNameFree(rows, name) == \A r \in rows : r.name # name

\* Container.container_name: the rental table is keyed by the unique name.
ContainerNameFree(rows, name) == \A r \in rows : r.name # name

\* select(Server).where(Server.server_name == name) ... is not None.
ServerNameTaken_Never(name) == FALSE
ServerNameTaken(name) == \E s \in servers : s.name = name
ContainerNameTaken(name) == \E c \in containers : c.name = name

\* select(Server).where(Server.server_name == server_name): the rows that
\* .one() is asked for, in server_renew and in server_return.
RenewTargets_NoWhere(name) == servers
RenewTargets(name) == {s \in servers : s.name = name}
ReturnTargets_NoWhere(name) == servers
ReturnTargets(name) == {s \in servers : s.name = name}

\* An exception raised inside an except block is not caught again: it
\* leaves the handler and the framework answers.
Escapes_Caught(r) == "err"
Escapes(r) == "crash"

\* session.add(row): the row waits in the session; the tables change at the
\* commit.
SessionAdd_Autocommit(r) ==
    /\ networks' = networks \cup {r.net}
    /\ UNCHANGED <<servers, containers, flavors, nodeNetworks, nodeFlavors>>
SessionAdd(r) == UNCHANGED db

\* where(X.name == v and X.node_name == n): Python's "and" on two SQLAlchemy
\* comparisons yields the first one, so the statement filters by name only.
LinksByName(links, w) == {l \in links : l[2] = w}
\* where(X.name == v, X.node_name == n): both conditions.
LinkOf(links, n, w) == {l \in links : l[1] = n /\ l[2] = w}

\* ------------------------------------------------------- the workers
Blank ==
    [pc |-> "idle", op |-> "none", name |-> "-", node |-> "-", net |-> "-",
     flv |-> "-", rid |-> 0,
     pF |-> FALSE, pN |-> FALSE, pL |-> FALSE,
     crFlv |-> FALSE, crNet |-> FALSE, crInst |-> FALSE,
     relFlv |-> FALSE, relNet |-> FALSE,
     fault |-> FALSE, broken |-> FALSE]

\* The scheduler between two sweeps.
SwIdle == [pc |-> "idle", today |-> 0, delS |-> {}, delC |-> {}, leftS |-> {}, leftC |-> {},
           fault |-> FALSE]

NoResponse == [op |-> "none", name |-> "-", res |-> "none", fault |-> FALSE]

\* session.rollback(): the pending rows are dropped.
Rollback(r) == [r EXCEPT !.pF = FALSE, !.pN = FALSE, !.pL = FALSE]

Free(p) == proc[p].pc = "idle"
Set(p, r) == /\ proc' = [proc EXCEPT ![p] = r]
             /\ UNCHANGED last

\* The handler returns (or its exception reaches the framework): the worker
\* is free again and the response is recorded.
\*   "ok" 2xx, "dup" 400 duplicate name, "bad" 400 wrong credentials,
\*   "err" the handler's ErrorResponse 500, "crash" an exception that left
\*   the handler (the framework answers 500).
Finish(p, r, result) ==
    /\ proc' = [proc EXCEPT ![p] = Blank]
    /\ last' = [op |-> r.op, name |-> r.name, res |-> result, fault |-> r.fault]

\* A call to the cloud, or a commit, failed for a reason of its own.
Fail(r) == [r EXCEPT !.fault = TRUE]

\* A request is taken by the first free worker (workers are interchangeable).
Accepts(p) ==
    /\ Free(p)
    /\ \A q \in Procs : q < p => ~Free(q)
    /\ ops < MaxOps
    /\ ops' = ops + 1

\* ------------------------------------------------------ the cloud calls
\* create_server: the platform accepts a second instance of the same name.
Bump(c) == IF c = "none" THEN "one" ELSE "many"
\* create_server: find_flavor and find_network yield None for a name the
\* node does not have, and the next lines read flavor.id and network.id.
CreateServerRaises(node, net, flv) ==
    <<node, net>> \notin cloudNets \/ <<node, flv>> \notin cloudFlavors
\* create_container: a container cannot be attached to a network that its
\* node does not have.
CreateContainerRaises(node, net) == <<node, net>> \notin cloudNets
\* delete_server: find_server yields None when no instance has the name (the
\* next line reads server.id) and raises when several have it.
DeleteServerRaises_AllByName(c) == c = "none"
DeleteServerRaises(c) == c # "one"

\* ------------------------------------------------- server_rent (rental)
\* Lines 40-71: the duplicate check and the flavor block.
SrStart(p) ==
    /\ Accepts(p)
    /\ \E name \in Names, node \in Nodes, w \in CustomNets \cup {NoNet}, f \in FlavorNames :
          LET net == IF w = NoNet THEN DefaultInternalNetwork ELSE w
              r == [Blank EXCEPT !.op = "server_rent", !.name = name, !.node = node,
                                 !.net = net, !.flv = f, !.pF = (f \notin flavors)]
              n == Cardinality(LinksByName(nodeFlavors, f))
          IN IF ServerNameTaken(name)
             THEN /\ Finish(p, r, "dup")
                  /\ UNCHANGED cloudFlavors
             ELSE \/ /\ n >= 2      \* one_or_none(): MultipleResultsFound
                     /\ Set(p, [Rollback(r) EXCEPT !.pc = "sr_flavor_undo"])
                     /\ UNCHANGED cloudFlavors
                  \/ /\ n = 1
                     /\ Set(p, [r EXCEPT !.pc = "sr_network"])
                     /\ UNCHANGED cloudFlavors
                  \/ /\ n = 0       \* create_flavor succeeds
                     /\ cloudFlavors' = cloudFlavors \cup {<<node, f>>}
                     /\ Set(p, [r EXCEPT !.pc = "sr_network", !.crFlv = TRUE])
                  \/ /\ n = 0       \* create_flavor raises
                     /\ Set(p, [Rollback(r) EXCEPT !.pc = "sr_flavor_undo", !.fault = TRUE])
                     /\ UNCHANGED cloudFlavors
    /\ UNCHANGED <<db, cloudSrv, cloudCtr, cloudNets, sw>>
    /\ UNCHANGED reclaimStarted

\* Lines 72-77: the handler of the flavor block.
SrFlavorUndo(p) ==
    LET r == proc[p] IN
    /\ r.pc = "sr_flavor_undo"
    /\ \/ /\ cloudFlavors' = cloudFlavors \ {<<r.node, r.flv>>}
          /\ Finish(p, r, "err")
       \/ /\ UNCHANGED cloudFlavors      \* delete_flavor raises in the handler
          /\ Finish(p, Fail(r), Escapes(r))
    /\ UNCHANGED <<db, cloudSrv, cloudCtr, cloudNets, sw, ops>>
    /\ UNCHANGED reclaimStarted

\* Lines 81-102: the network block.
\* session.add(NodeNetwork(...)) stands after the call of network_isolation:
\* the link is pending only when the cloud call has returned.
AddNodeNetwork_First(isolated) == TRUE
AddNodeNetwork(isolated) == isolated

SrNetwork(p) ==
    LET r == proc[p]
        r1 == [r EXCEPT !.pN = (r.net \notin networks)]
        n == Cardinality(LinksByName(nodeNetworks, r.net))
    IN
    /\ r.pc = "sr_network"
    /\ \/ /\ n >= 2
          /\ Set(p, [r1 EXCEPT !.pc = "sr_network_undo"])
          /\ UNCHANGED cloudNets
       \/ /\ n = 1
          /\ Set(p, [r1 EXCEPT !.pc = "sr_create"])
          /\ UNCHANGED cloudNets
       \/ /\ n = 0       \* network_isolation succeeds
          /\ cloudNets' = cloudNets \cup {<<r.node, r.net>>}
          /\ Set(p, [r1 EXCEPT !.pc = "sr_create", !.pL = AddNodeNetwork(TRUE),
                                !.crNet = TRUE])
       \/ /\ n = 0       \* network_isolation raises
          /\ Set(p, [r1 EXCEPT !.pc = "sr_network_undo", !.fault = TRUE,
                                !.pL = AddNodeNetwork(FALSE)])
          /\ UNCHANGED cloudNets
    /\ SessionAdd(r)
    /\ UNCHANGED <<cloudSrv, cloudCtr, cloudFlavors, sw, ops>>
    /\ UNCHANGED reclaimStarted

\* Lines 103-114: the handler of the network block.
SrNetworkUndo(p) ==
    LET r == proc[p]
        linked == LinkOf(nodeNetworks, r.node, r.net) # {}
    IN
    /\ r.pc = "sr_network_undo"
    /\ IF linked /\ ~IsDefaultNet(r.net)
       THEN \/ /\ cloudNets' = cloudNets \ {<<r.node, r.net>>}
               /\ Finish(p, r, "err")
            \/ /\ UNCHANGED cloudNets    \* network_delete raises in the handler
               /\ Finish(p, Fail(r), Escapes(r))
       ELSE /\ UNCHANGED cloudNets
            /\ Finish(p, r, "err")
    /\ UNCHANGED <<db, cloudSrv, cloudCtr, cloudFlavors, sw, ops>>
    /\ UNCHANGED reclaimStarted

\* Lines 116-121 and, when one of the two calls raises, 137-142: the handler
\* rolls back and then reads floating_ip, which is still unbound.
SrCreate(p) ==
    LET r == proc[p] IN
    /\ r.pc = "sr_create"
    /\ \/ /\ UNCHANGED cloudSrv          \* create_server raises
          /\ Finish(p, IF CreateServerRaises(r.node, r.net, r.flv) THEN r ELSE Fail(r),
                    Escapes(r))
       \/ /\ ~CreateServerRaises(r.node, r.net, r.flv)
          /\ cloudSrv' = [cloudSrv EXCEPT ![<<r.node, r.name>>] = Bump(@)]
          /\ \/ Finish(p, Fail(r), Escapes(r))    \* allocate_floating_ip raises
             \/ Set(p, [r EXCEPT !.pc = "sr_commit", !.crInst = TRUE])
    /\ UNCHANGED <<db, cloudCtr, cloudNets, cloudFlavors, sw, ops>>
    /\ UNCHANGED reclaimStarted

\* The unique keys of the infrastructure tables.
InfraConflict(r) ==
    \/ r.pF /\ r.flv \in flavors
    \/ r.pN /\ r.net \in networks
    \/ r.pL /\ <<r.node, r.net>> \in nodeNetworks

CommitInfra(r) ==
    /\ flavors' = IF r.pF THEN flavors \cup {r.flv} ELSE flavors
    /\ networks' = IF r.pN THEN networks \cup {r.net} ELSE networks
    /\ nodeNetworks' = IF r.pL THEN nodeNetworks \cup {<<r.node, r.net>>} ELSE nodeNetworks

\* Lines 123-136: the row is added and the session committed.
SrCommit(p) ==
    LET r == proc[p] IN
    /\ r.pc = "sr_commit"
    /\ \/ /\ ServerNameFree(servers, r.name) /\ ~InfraConflict(r)
          /\ \E e \in Days :
                servers' = servers \cup {[id |-> NewId, name |-> r.name,
                                         node |-> r.node, net |-> r.net,
                                         flv |-> r.flv, end |-> e]}
          /\ CommitInfra(r)
          /\ Finish(p, r, "ok")
          /\ UNCHANGED <<containers, nodeFlavors>>
       \/ /\ ~(ServerNameFree(servers, r.name) /\ ~InfraConflict(r))   \* IntegrityError
          /\ Set(p, [Rollback(r) EXCEPT !.pc = "sr_undo", !.broken = TRUE])
          /\ UNCHANGED db
       \/ /\ Set(p, [Rollback(Fail(r)) EXCEPT !.pc = "sr_undo"])   \* the commit raises
          /\ UNCHANGED db
    /\ UNCHANGED <<cloud, sw, ops>>
    /\ UNCHANGED reclaimStarted

\* Lines 137-143 after a failed commit: floating_ip is bound.
SrUndo(p) ==
    LET r == proc[p]
        c == cloudSrv[<<r.node, r.name>>]
    IN
    /\ r.pc = "sr_undo"
    /\ \/ /\ ~DeleteServerRaises(c)
          /\ cloudSrv' = [cloudSrv EXCEPT ![<<r.node, r.name>>] = "none"]
          /\ Finish(p, r, "err")
       \/ /\ UNCHANGED cloudSrv          \* delete_server raises in the handler
          /\ Finish(p, IF DeleteServerRaises(c) THEN r ELSE Fail(r), Escapes(r))
    /\ UNCHANGED <<db, cloudCtr, cloudNets, cloudFlavors, sw, ops>>
    /\ UNCHANGED reclaimStarted

\* ----------------------------------------------- server_return (return)
\* for node in node_config['nodes']: the list order.
NodeOrder == <<"n1", "n2">>
FirstNodes(k) == {NodeOrder[i] : i \in 1..k}

\* Lines 194-208: credentials, the row, delete_server.
SretDelete(p) ==
    /\ Accepts(p)
    /\ \E name \in Names, valid \in BOOLEAN :
          LET rows == ReturnTargets(name)
              r0 == [Blank EXCEPT !.op = "server_return", !.name = name]
          IN IF ~valid
             THEN Finish(p, r0, "bad") /\ UNCHANGED <<cloudSrv, reclaimStarted>>
             ELSE IF Cardinality(rows) # 1          \* .one() raises
             THEN Finish(p, r0, "err") /\ UNCHANGED <<cloudSrv, reclaimStarted>>
             ELSE LET row == CHOOSE s \in rows : TRUE
                      r == [r0 EXCEPT !.rid = row.id, !.node = row.node,
                                      !.net = row.net, !.flv = row.flv]
                      k == <<row.node, name>>
                  IN /\ reclaimStarted' = reclaimStarted \cup {row.id}
                     /\ \/ /\ ~DeleteServerRaises(cloudSrv[k])
                           /\ cloudSrv' = [cloudSrv EXCEPT ![k] = "none"]
                           /\ Set(p, [r EXCEPT !.pc = "rt_commit"])
                        \/ /\ UNCHANGED cloudSrv
                           /\ Finish(p, IF DeleteServerRaises(cloudSrv[k])
                                        THEN r ELSE Fail(r), "err")
    /\ UNCHANGED <<db, cloudCtr, cloudNets, cloudFlavors, sw>>

\* Lines 210-211: the row is deleted and the session committed.
SretCommit(p) ==
    LET r == proc[p] IN
    /\ r.pc = "rt_commit"
    /\ \/ /\ servers' = {s \in servers : s.id # r.rid}
          /\ Set(p, [r EXCEPT !.pc = "rt_flavor"])
       \/ /\ UNCHANGED servers             \* the commit raises
          /\ Finish(p, Fail(r), "err")
    /\ UNCHANGED <<containers, networks, flavors, nodeNetworks, nodeFlavors, cloud, sw, ops>>
    /\ UNCHANGED reclaimStarted

\* Lines 214-223: find_server after the deletion, then the flavor.  The
\* deleted instance may still be listed; an instance of the same name that
\* someone else created may carry any flavor.
SretFlavor(p) ==
    LET r == proc[p]
        c == cloudSrv[<<r.node, r.name>>]
    IN
    /\ r.pc = "rt_flavor"
    /\ \/ /\ Finish(p, r, "err")            \* find_server: None, or it raises
          /\ UNCHANGED cloudFlavors
       \/ /\ c # "many"
          /\ \E f \in (IF c = "one" THEN FlavorNames ELSE {r.flv}) :
                LET users == {s \in servers : s.flv = f} IN
                IF IsDefaultFlavor(f) \/ Cardinality(users) = 1
                THEN /\ Set(p, [r EXCEPT !.pc = "rt_network"])
                     /\ UNCHANGED cloudFlavors
                ELSE IF Cardinality(users) >= 2     \* one_or_none() raises
                THEN /\ Finish(p, r, "err")
                     /\ UNCHANGED cloudFlavors
                ELSE \E k \in 0..Len(NodeOrder) :
                        /\ cloudFlavors' = cloudFlavors \ (FirstNodes(k) \X {f})
                        /\ IF k = Len(NodeOrder)
                           THEN Set(p, [r EXCEPT !.pc = "rt_network"])
                           ELSE Finish(p, Fail(r), "err")  \* delete_flavor raises
    /\ UNCHANGED <<db, cloudSrv, cloudCtr, cloudNets, sw, ops>>
    /\ UNCHANGED reclaimStarted

\* Lines 225-240: the network.
SretNetwork(p) ==
    LET r == proc[p]
        su == {s \in servers : s.net = r.net}
        cu == {c \in containers : c.net = r.net}
    IN
    /\ r.pc = "rt_network"
    /\ IF r.net = ExternalNetwork \/ r.net = DefaultInternalNetwork
          \/ Cardinality(su) = 1 \/ (su = {} /\ Cardinality(cu) = 1)
       THEN /\ Finish(p, r, "ok")
            /\ UNCHANGED cloudNets
       ELSE IF Cardinality(su) >= 2 \/ Cardinality(cu) >= 2   \* one_or_none() raises
       THEN /\ Finish(p, r, "err")
            /\ UNCHANGED cloudNets
       ELSE \E k \in 0..Len(NodeOrder) :
               /\ cloudNets' = cloudNets \ (FirstNodes(k) \X {r.net})
               /\ IF k = Len(NodeOrder)
                  THEN Finish(p, r, "ok")
                  ELSE Finish(p, Fail(r), "err")    \* network_delete raises
    /\ UNCHANGED <<db, cloudSrv, cloudCtr, cloudFlavors, sw, ops>>
    /\ UNCHANGED reclaimStarted

\* ------------------------------------------------ server_renew (extension)
ServerRenew(p) ==
    /\ Accepts(p)
    /\ \E name \in Names, valid \in BOOLEAN, e \in Days :
          LET rows == RenewTargets(name)
              r == [Blank EXCEPT !.op = "server_renew", !.name = name]
          IN IF ~valid
             THEN Finish(p, r, "bad") /\ UNCHANGED servers
             ELSE IF Cardinality(rows) # 1          \* .one() raises
             THEN Finish(p, r, "err") /\ UNCHANGED servers
             ELSE \/ /\ servers' = {IF s \in rows THEN [s EXCEPT !.end = e] ELSE s
                                     : s \in servers}
                     /\ Finish(p, r, "ok")
                  \/ /\ UNCHANGED servers           \* the commit raises
                     /\ Finish(p, Fail(r), "err")
    /\ UNCHANGED <<containers, networks, flavors, nodeNetworks, nodeFlavors, cloud, sw>>
    /\ UNCHANGED reclaimStarted

\* --------------------------------------------------- rental (container)
\* Lines 26-56: the duplicate check and the network block, outside any try.
CrStart(p) ==
    /\ Accepts(p)
    /\ \E name \in Names, node \in Nodes, w \in CustomNets \cup {NoNet} :
          LET net == IF w = NoNet THEN ExternalNetwork ELSE w
              r == [Blank EXCEPT !.op = "container_rent", !.name = name, !.node = node,
                                 !.net = net, !.pN = (net \notin networks)]
              n == Cardinality(LinksByName(nodeNetworks, net))
          IN IF ContainerNameTaken(name)
             THEN /\ Finish(p, r, "dup")
                  /\ UNCHANGED cloudNets
             ELSE \/ /\ n >= 2      \* one_or_none(): MultipleResultsFound
                     /\ Finish(p, r, "crash")
                     /\ UNCHANGED cloudNets
                  \/ /\ n = 1
                     /\ Set(p, [r EXCEPT !.pc = "cr_create"])
                     /\ UNCHANGED cloudNets
                  \/ /\ n = 0       \* network_isolation succeeds
                     /\ cloudNets' = cloudNets \cup {<<node, net>>}
                     /\ Set(p, [r EXCEPT !.pc = "cr_create", !.pL = TRUE, !.crNet = TRUE])
                  \/ /\ n = 0       \* network_isolation raises
                     /\ Finish(p, Fail(r), "crash")
                     /\ UNCHANGED cloudNets
    /\ UNCHANGED <<db, cloudSrv, cloudCtr, cloudFlavors, sw>>
    /\ UNCHANGED reclaimStarted

\* Lines 58-80: create_container, and the address read from its result.
CrCreate(p) ==
    LET r == proc[p] IN
    /\ r.pc = "cr_create"
    /\ \/ /\ ~CreateContainerRaises(r.node, r.net)
          /\ cloudCtr' = cloudCtr \cup {<<r.node, r.name>>}
          /\ Set(p, [r EXCEPT !.pc = "cr_commit", !.crInst = TRUE])
       \/ /\ UNCHANGED cloudCtr            \* create_container raises
          /\ Set(p, [IF CreateContainerRaises(r.node, r.net) THEN r ELSE Fail(r)
                      EXCEPT !.pc = "cr_undo_net"])
       \/ /\ ~CreateContainerRaises(r.node, r.net)
          /\ cloudCtr' = cloudCtr \cup {<<r.node, r.name>>}   \* line 76 raises: no address
          /\ Set(p, [Fail(r) EXCEPT !.pc = "cr_undo_net", !.crInst = TRUE])
    /\ UNCHANGED <<db, cloudSrv, cloudNets, cloudFlavors, sw, ops>>
    /\ UNCHANGED reclaimStarted

\* Lines 67-83: the row is added and the session committed.  After a failed
\* commit the session refuses the handler's query (line 87) until it is
\* rolled back (PendingRollbackError), so the handler is left at once.
CrCommit(p) ==
    LET r == proc[p] IN
    /\ r.pc = "cr_commit"
    /\ \/ /\ ContainerNameFree(containers, r.name) /\ ~InfraConflict(r)
          /\ \E e \in Days :
                containers' = containers \cup {[id |-> NewId, name |-> r.name,
                                               node |-> r.node, net |-> r.net, end |-> e]}
          /\ CommitInfra(r)
          /\ Finish(p, r, "ok")
          /\ UNCHANGED <<servers, nodeFlavors>>
       \/ /\ ~(ContainerNameFree(containers, r.name) /\ ~InfraConflict(r))  \* IntegrityError
          /\ Finish(p, r, Escapes(r))
          /\ UNCHANGED db
       \/ /\ Finish(p, Fail(r), Escapes(r))   \* the commit raises
          /\ UNCHANGED db
    /\ UNCHANGED <<cloud, sw, ops>>
    /\ UNCHANGED reclaimStarted

\* Lines 84-93: the handler looks the link up (by name, pending rows
\* included) and deletes the network on the request's node.
CrUndoNet(p) ==
    LET r == proc[p]
        seen == LinksByName(nodeNetworks \cup (IF r.pL THEN {<<r.node, r.net>>} ELSE {}), r.net)
    IN
    /\ r.pc = "cr_undo_net"
    /\ IF Cardinality(seen) >= 2           \* one_or_none() raises in the handler
       THEN /\ Finish(p, r, Escapes(r))
            /\ UNCHANGED cloudNets
       ELSE IF seen # {} /\ ~IsDefaultNet(r.net)
       THEN \/ /\ cloudNets' = cloudNets \ {<<r.node, r.net>>}
               /\ Set(p, [Rollback(r) EXCEPT !.pc = "cr_undo_ctr", !.relNet = TRUE])
            \/ /\ UNCHANGED cloudNets      \* network_delete raises in the handler
               /\ Finish(p, Fail(r), Escapes(r))
       ELSE /\ UNCHANGED cloudNets
            /\ Set(p, [Rollback(r) EXCEPT !.pc = "cr_undo_ctr"])
    /\ UNCHANGED <<db, cloudSrv, cloudCtr, cloudFlavors, sw, ops>>
    /\ UNCHANGED reclaimStarted

\* Lines 94-97: rollback, delete_container.
CrUndoCtr(p) ==
    LET r == proc[p] IN
    /\ r.pc = "cr_undo_ctr"
    /\ \/ /\ cloudCtr' = cloudCtr \ {<<r.node, r.name>>}
          /\ Finish(p, r, "err")
       \/ /\ UNCHANGED cloudCtr            \* delete_container raises in the handler
          /\ Finish(p, Fail(r), Escapes(r))
    /\ UNCHANGED <<db, cloudSrv, cloudNets, cloudFlavors, sw, ops>>
    /\ UNCHANGED reclaimStarted

\* --------------------------------------------- container_return (return)
\* Lines 108-122: the row, the password, delete_container.
CretDelete(p) ==
    /\ Accepts(p)
    /\ \E name \in Names, pwOk \in BOOLEAN :
          LET rows == {c \in containers : c.name = name}
              r0 == [Blank EXCEPT !.op = "container_return", !.name = name]
          IN IF Cardinality(rows) # 1              \* .one() raises
             THEN Finish(p, r0, "err") /\ UNCHANGED cloudCtr
             ELSE IF ~pwOk
             THEN Finish(p, r0, "bad") /\ UNCHANGED cloudCtr
             ELSE LET row == CHOOSE c \in rows : TRUE
                      r == [r0 EXCEPT !.rid = row.id, !.node = row.node, !.net = row.net]
                  IN \/ /\ cloudCtr' = cloudCtr \ {<<row.node, name>>}
                        /\ Set(p, [r EXCEPT !.pc = "ct_commit"])
                     \/ /\ UNCHANGED cloudCtr
                        /\ Finish(p, Fail(r), "err")
    /\ UNCHANGED <<db, cloudSrv, cloudNets, cloudFlavors, sw>>
    /\ UNCHANGED reclaimStarted

\* Lines 123-125.
CretCommit(p) ==
    LET r == proc[p] IN
    /\ r.pc = "ct_commit"
    /\ \/ /\ containers' = {c \in containers : c.id # r.rid}
          /\ Set(p, [r EXCEPT !.pc = "ct_release"])
       \/ /\ UNCHANGED containers          \* the commit raises
          /\ Finish(p, Fail(r), "err")
    /\ UNCHANGED <<servers, networks, flavors, nodeNetworks, nodeFlavors, cloud, sw, ops>>
    /\ UNCHANGED reclaimStarted

\* Lines 127-151: the network is deleted, on every node that has a link, when
\* no server and no container names it and it is not a default; the links
\* and the row go at the second commit.  A network_delete that raises leaves
\* the networks deleted so far deleted and the tables as they were.
CretRelease(p) ==
    LET r == proc[p]
        users == {s \in servers : s.net = r.net} \cup {c \in containers : c.net = r.net}
        links == LinksByName(nodeNetworks, r.net)
    IN
    /\ r.pc = "ct_release"
    /\ IF r.net \notin networks                 \* .one() raises
       THEN /\ Finish(p, r, "err")
            /\ UNCHANGED <<networks, nodeNetworks, cloudNets>>
       ELSE IF users = {} /\ ~IsDefaultNet(r.net)
       THEN \E gone \in SUBSET links :
               /\ cloudNets' = cloudNets \ gone
               /\ IF gone = links
                  THEN /\ nodeNetworks' = nodeNetworks \ links
                       /\ networks' = networks \ {r.net}
                       /\ Finish(p, r, "ok")
                  ELSE /\ UNCHANGED <<networks, nodeNetworks>>
                       /\ Finish(p, Fail(r), "err")
       ELSE /\ Finish(p, r, "ok")
            /\ UNCHANGED <<networks, nodeNetworks, cloudNets>>
    /\ UNCHANGED <<servers, containers, flavors, nodeFlavors, cloudSrv, cloudCtr,
                   cloudFlavors, sw, ops>>
    /\ UNCHANGED reclaimStarted

\* ------------------------------------------- delete_expired_data (sweep)
\* Lines 16-22: now, and the two reads.  run_scheduler calls the job from
\* its only loop, so a sweep starts when none is running.
\* run_scheduler calls schedule.run_pending() in its one loop, and
\* run_pending runs a due job to its end before it returns.
SchedulerFree_Threaded == sw.pc \in {"idle", "run"}
SchedulerFree == sw.pc = "idle"

SweepStart ==
    /\ SchedulerFree
    /\ ops < MaxOps
    /\ ops' = ops + 1
    /\ \E today \in Days :
          LET es == {s \in servers : s.end < today}
              ec == {c \in containers : c.end < today}
          IN /\ sw' = [pc |-> "run", today |-> today, delS |-> es, delC |-> ec,
                    leftS |-> es, leftC |-> ec, fault |-> FALSE]
             /\ reclaimStarted' = reclaimStarted \cup {s.id : s \in es}
    /\ UNCHANGED <<db, cloud, proc, last>>

\* with Session(...) as session, session.begin(): an exception that leaves
\* the block rolls the session back, so the rows marked by session.delete
\* stay in the tables.
SweepRollback_Commits(marked) ==
    /\ servers' = {s \in servers : s.id \notin {d.id : d \in marked}}
    /\ containers' = {c \in containers : c.id \notin {d.id : d \in marked}}
SweepRollback(marked) == UNCHANGED <<servers, containers>>

\* Lines 25-28: one expired server.  An exception leaves the function, the
\* session block rolls back, and run_scheduler's loop ends with it.
SweepServer ==
    /\ sw.pc = "run"
    /\ \E s \in sw.leftS :
          LET k == <<s.node, s.name>> IN
          \/ /\ ~DeleteServerRaises(cloudSrv[k])
             /\ cloudSrv' = [cloudSrv EXCEPT ![k] = "none"]
             /\ sw' = [sw EXCEPT !.leftS = @ \ {s}]
             /\ UNCHANGED <<servers, containers>>
          \/ /\ UNCHANGED cloudSrv
             /\ sw' = [SwIdle EXCEPT !.pc = "crashed", !.today = sw.today,
                                     !.fault = ~DeleteServerRaises(cloudSrv[k])]
             /\ SweepRollback((sw.delS \ sw.leftS) \cup {s})
    /\ UNCHANGED <<networks, flavors, nodeNetworks, nodeFlavors,
                   cloudCtr, cloudNets, cloudFlavors, proc, last, ops>>
    /\ UNCHANGED reclaimStarted

\* Lines 31-34: one expired container, after the servers.
SweepContainer ==
    /\ sw.pc = "run"
    /\ sw.leftS = {}
    /\ \E c \in sw.leftC :
          \/ /\ cloudCtr' = cloudCtr \ {<<c.node, c.name>>}
             /\ sw' = [sw EXCEPT !.leftC = @ \ {c}]
             /\ UNCHANGED <<servers, containers>>
          \/ /\ UNCHANGED cloudCtr
             /\ sw' = [SwIdle EXCEPT !.pc = "crashed", !.today = sw.today, !.fault = TRUE]
             /\ SweepRollback(sw.delS \cup (sw.delC \ sw.leftC) \cup {c})
    /\ UNCHANGED <<networks, flavors, nodeNetworks, nodeFlavors,
                   cloudSrv, cloudNets, cloudFlavors, proc, last, ops>>
    /\ UNCHANGED reclaimStarted

\* Line 36: the deletions are committed.
SweepCommit ==
    /\ sw.pc = "run"
    /\ sw.leftS = {} /\ sw.leftC = {}
    /\ \/ /\ servers' = {s \in servers : s.id \notin {d.id : d \in sw.delS}}
          /\ containers' = {c \in containers : c.id \notin {d.id : d \in sw.delC}}
          /\ sw' = [SwIdle EXCEPT !.today = sw.today]
       \/ /\ UNCHANGED <<servers, containers>>
          /\ sw' = [SwIdle EXCEPT !.pc = "crashed", !.today = sw.today, !.fault = TRUE]
    /\ UNCHANGED <<networks, flavors, nodeNetworks, nodeFlavors, cloud, proc, last, ops>>
    /\ UNCHANGED reclaimStarted

\* ---------------------------------------------------------------- Init
SeedChoices == {{}, Nodes}

Init ==
    /\ servers = {}
    /\ containers = {}
    /\ networks = DefaultNets
    /\ flavors = DefaultFlavors
    /\ \E seeded \in SeedChoices :
          /\ nodeNetworks = seeded \X DefaultNets
          /\ nodeFlavors = seeded \X DefaultFlavors
    /\ cloudSrv = [k \in Nodes \X Names |-> "none"]
    /\ cloudCtr = {}
    /\ cloudNets = Nodes \X DefaultNets
    /\ cloudFlavors = Nodes \X DefaultFlavors
    /\ proc = [p \in Procs |-> Blank]
    /\ sw = SwIdle
    /\ last = NoResponse
    /\ ops = 0
    /\ reclaimStarted = {}

Next ==
    \/ SweepStart \/ SweepServer \/ SweepContainer \/ SweepCommit
    \/ \E p \in Procs :
        \/ SrStart(p) \/ SrFlavorUndo(p) \/ SrNetwork(p) \/ SrNetworkUndo(p)
        \/ SrCreate(p) \/ SrCommit(p) \/ SrUndo(p)
        \/ SretDelete(p) \/ SretCommit(p) \/ SretFlavor(p) \/ SretNetwork(p)
        \/ ServerRenew(p)
        \/ CrStart(p) \/ CrCreate(p) \/ CrCommit(p) \/ CrUndoNet(p) \/ CrUndoCtr(p)
        \/ CretDelete(p) \/ CretCommit(p) \/ CretRelease(p)

Spec == Init /\ [][Next]_vars

\* ------------------------------------------------- a service in operation
\* Two rentals, "a" and "b", were made one after the other on the first node
\* and both name the network "w1"; the servers among them use flavor "f1".
\* The state is the one two completed rental requests leave behind.
LiveKinds == {<<"s", "s">>, <<"c", "c">>, <<"s", "c">>}
LiveServer(i, name, e) ==
    [id |-> i, name |-> name, node |-> "n1", net |-> "w1", flv |-> "f1", end |-> e]
LiveContainer(i, name, e) ==
    [id |-> i, name |-> name, node |-> "n1", net |-> "w1", end |-> e]

Rented(kinds, eA, eB, seeded) ==
    /\ servers = (IF kinds[1] = "s" THEN {LiveServer(1, "a", eA)} ELSE {})
                    \cup (IF kinds[2] = "s" THEN {LiveServer(2, "b", eB)} ELSE {})
    /\ containers = (IF kinds[1] = "c" THEN {LiveContainer(1, "a", eA)} ELSE {})
                    \cup (IF kinds[2] = "c" THEN {LiveContainer(2, "b", eB)} ELSE {})
    /\ networks = DefaultNets \cup {"w1"}
    /\ flavors = DefaultFlavors \cup (IF "s" \in {kinds[1], kinds[2]} THEN {"f1"} ELSE {})
    /\ nodeNetworks = (seeded \X DefaultNets) \cup {<<"n1", "w1">>}
    /\ nodeFlavors = seeded \X DefaultFlavors
    /\ cloudSrv = [k \in Nodes \X Names |->
                     IF \/ k = <<"n1", "a">> /\ kinds[1] = "s"
                        \/ k = <<"n1", "b">> /\ kinds[2] = "s"
                     THEN "one" ELSE "none"]
    /\ cloudCtr = (IF kinds[1] = "c" THEN {<<"n1", "a">>} ELSE {})
                    \cup (IF kinds[2] = "c" THEN {<<"n1", "b">>} ELSE {})
    /\ cloudNets = (Nodes \X DefaultNets) \cup {<<"n1", "w1">>}
    /\ cloudFlavors = (Nodes \X DefaultFlavors)
                      \cup (IF "s" \in {kinds[1], kinds[2]} THEN {<<"n1", "f1">>} ELSE {})

LiveInit ==
    /\ \E kinds \in LiveKinds, eA \in Days, eB \in Days, seeded \in SeedChoices :
          Rented(kinds, eA, eB, seeded)
    /\ proc = [p \in Procs |-> Blank]
    /\ sw = SwIdle
    /\ last = NoResponse
    /\ ops = 0
    /\ reclaimStarted = {}

\* Every state of LiveInit is a state of the tables and of the cloud that
\* Spec reaches with no request in flight.
LiveReached(kinds) ==
    /\ \E eA \in Days, eB \in Days, seeded \in SeedChoices : Rented(kinds, eA, eB, seeded)
    /\ \A p \in Procs : Free(p)
    /\ sw.pc = "idle"
LiveReachedSS == LiveReached(<<"s", "s">>)
LiveReachedCC == LiveReached(<<"c", "c">>)
LiveReachedSC == LiveReached(<<"s", "c">>)

SpecLive == LiveInit /\ [][Next]_vars

\* ============================================================ properties
Rents == {"server_rent", "container_rent"}
RentalsOf(op) == IF op = "server_rent" THEN servers ELSE containers
RentalsAfter(op) == IF op = "server_rent" THEN servers' ELSE containers'
Named(rows, name) == {r \in rows : r.name = name}

\* The step in which worker p commits a rental and answers 2xx.
RentOk(p) ==
    /\ proc[p].pc \in {"sr_commit", "cr_commit"}
    /\ proc'[p] = Blank
    /\ last'.res = "ok"

\* A step of a rental request of worker p: its first step (the worker was
\* free and now holds the request) or a later one.
RentStep(p) ==
    \/ proc[p].op \in Rents /\ proc'[p] # proc[p]
    \/ proc[p] = Blank /\ proc'[p].op \in Rents

\* A rental request for the name arrives; it either occupies a worker or is
\* answered in the same step.
RentArrives(op, name) ==
    /\ ops' = ops + 1
    /\ \/ \E p \in Procs : proc[p] = Blank /\ proc'[p].op = op /\ proc'[p].name = name
       \/ proc' = proc /\ sw' = sw /\ last'.op = op /\ last'.name = name

FailedAtCreateEnds(p) ==
    /\ proc'[p] = Blank
    /\ proc[p].pc \in {"sr_create", "cr_undo_net", "cr_undo_ctr"}
C2_FailedProvisionReleases ==
    [][\A p \in Procs :
          FailedAtCreateEnds(p) =>
             /\ Named(RentalsAfter(proc[p].op), proc[p].name) = {}
             /\ proc[p].crNet => (proc[p].relNet \/ proc[p].pc = "cr_undo_net")
             /\ proc[p].crFlv => proc[p].relFlv
      ]_vars

\* C3: a step of a provisioning request changes the inventory tables only
\* when it is the commit that ends the request with success: a request that
\* does not reach that commit leaves the three tables as they were, and the
\* tables are written once per request.
C3_OnlyTheCommitWrites ==
    [][\A p \in Procs : RentStep(p) /\ db' # db => RentOk(p)]_vars

\* C3 witness: a request that created a network and an instance and then
\* had to give up is in its handler, and the tables hold nothing of it.
C3_Witness ==
    \E p \in Procs :
       /\ proc[p].pc \in {"sr_undo", "cr_undo_net", "cr_undo_ctr"}
       /\ proc[p].crNet
       /\ proc[p].net \notin networks
       /\ <<proc[p].node, proc[p].net>> \notin nodeNetworks
       /\ Named(RentalsOf(proc[p].op), proc[p].name) = {}

NoTwoSameName(rows) == \A x \in rows, y \in rows : x.name = y.name => x = y
C6_NetworkCreatedOnce ==
    \A p \in Procs, q \in Procs :
       ~ /\ p # q
         /\ proc[p].crNet /\ proc[q].crNet
         /\ proc[p].node = proc[q].node /\ proc[p].net = proc[q].net

\* C7: when a return has removed a rental that named a non-default network
\* (no provider failure), the network of its node, the link and the row are
\* all still there if another rental names the network, and are all gone if
\* none does.
ReturnEnds(p) ==
    /\ proc[p].pc \in {"rt_flavor", "rt_network", "ct_release"}
    /\ proc'[p] = Blank
    /\ ~last'.fault
UsersAfter(net) == {r \in servers' \cup containers' : r.net = net}
C7_SharedNetworkCounted ==
    [][\A p \in Procs :
          ReturnEnds(p) /\ ~IsDefaultNet(proc[p].net) =>
             LET k == <<proc[p].node, proc[p].net>> IN
             IF UsersAfter(k[2]) # {}
             THEN k \in cloudNets' /\ k \in nodeNetworks' /\ k[2] \in networks'
             ELSE k \notin cloudNets' /\ k \notin nodeNetworks' /\ k[2] \notin networks'
      ]_vars

\* C8: the cloud resource and the row of every default network and of every
\* default flavor are there in every state.
C8_DefaultsNeverDeleted ==
    /\ DefaultNets \subseteq networks
    /\ DefaultFlavors \subseteq flavors
    /\ Nodes \X DefaultNets \subseteq cloudNets
    /\ Nodes \X DefaultFlavors \subseteq cloudFlavors

\* C9: a server return with valid credentials that finds the record and no
\* instance in the cloud is not answered with an error: it goes on to delete
\* the record.
C9_AbsentInstanceIsSuccess ==
    [][\A name \in Names :
          (/\ ops' = ops + 1 /\ proc' = proc /\ sw' = sw
           /\ last'.op = "server_return" /\ last'.name = name
           /\ \E s \in Named(servers, name) : cloudSrv[<<s.node, name>>] = "none")
          => last'.res = "bad"
      ]_vars

\* C10: when a sweep ends without a provider failure, no record that it read
\* as expired is left, and every record that was not expired at its date is
\* as it was before the step.
SweepEnds == sw.pc = "run" /\ sw'.pc \in {"idle", "crashed"} /\ ~sw'.fault
C10_SweepReclaimsExpired ==
    [][SweepEnds =>
          /\ \A d \in sw.delS : \A s \in servers' : s.id # d.id
          /\ \A d \in sw.delC : \A c \in containers' : c.id # d.id
          /\ \A r \in servers : r.end >= sw.today => r \in servers'
          /\ \A r \in containers : r.end >= sw.today => r \in containers'
      ]_vars

\* C11: when a sweep is ended by the failure of one cloud deletion, every
\* expired record whose cloud deletion had succeeded in this sweep is removed
\* from the inventory.
SweepDeletionFails ==
    /\ sw.pc = "run" /\ sw'.pc = "crashed"
    /\ sw.leftS \cup sw.leftC # {}
SweepDone ==
    (sw.delS \ sw.leftS) \cup (IF sw.leftS = {} THEN sw.delC \ sw.leftC ELSE {})
C11_SweepFailureIsolated ==
    [][SweepDeletionFails =>
          \A d \in SweepDone :
             \A r \in servers' \cup containers' : r.id # d.id
      ]_vars

\* C12: a provisioning request whose handler fails while it undoes a step
\* is answered by the exception that leaves the handler, and one whose
\* handler undoes the step is answered by the handler's error response; the
\* two answers differ, and the request ends with the failed call.
UndoEnds(p) ==
    /\ proc[p].pc \in {"sr_flavor_undo", "sr_network_undo", "sr_undo", "cr_undo_ctr"}
    /\ proc'[p] = Blank
\* The handler has something to undo: the resource it deletes is there.
UndoDue(p) ==
    LET r == proc[p] IN
    \/ r.pc = "sr_flavor_undo" /\ <<r.node, r.flv>> \in cloudFlavors
    \/ r.pc = "sr_network_undo" /\ <<r.node, r.net>> \in cloudNets
          /\ LinkOf(nodeNetworks, r.node, r.net) # {} /\ ~IsDefaultNet(r.net)
    \/ r.pc = "sr_undo" /\ cloudSrv[<<r.node, r.name>>] # "none"
    \/ r.pc = "cr_undo_ctr" /\ <<r.node, r.name>> \in cloudCtr
\* ... and it is still there after the handler's step.
UndoLeft(p) ==
    LET r == proc[p] IN
    \/ r.pc = "sr_flavor_undo" /\ <<r.node, r.flv>> \in cloudFlavors'
    \/ r.pc = "sr_network_undo" /\ <<r.node, r.net>> \in cloudNets'
    \/ r.pc = "sr_undo" /\ cloudSrv'[<<r.node, r.name>>] # "none"
    \/ r.pc = "cr_undo_ctr" /\ <<r.node, r.name>> \in cloudCtr'
C13_LinkPerNode ==
    [][\A p \in Procs :
          RentOk(p) => <<proc[p].node, proc[p].net>> \in nodeNetworks'
      ]_vars

\* A request of the kind for the name is answered in the step it arrives in.
AnsweredAtOnce(op, name) ==
    /\ ops' = ops + 1
    /\ proc' = proc /\ sw' = sw
    /\ last'.op = op /\ last'.name = name

\* C14: an extension for a name that has a record changes nothing but the
\* end date of that record; an extension for a name that has no record is
\* answered with an error and changes nothing.  The cloud and the other
\* tables are as before in both cases.
OnlyEndChanged(name) ==
    /\ \A s \in servers : s.name # name => s \in servers'
    /\ \A t \in servers' : \E s \in servers : t = [s EXCEPT !.end = t.end]
    /\ Cardinality(servers') = Cardinality(servers)
C14_ExtendFrame ==
    [][\A name \in Names :
          AnsweredAtOnce("server_renew", name) =>
             /\ UNCHANGED <<containers, networks, flavors, nodeNetworks, nodeFlavors, cloud>>
             /\ IF Named(servers, name) = {}
                THEN UNCHANGED servers /\ last'.res \in {"err", "bad"}
                ELSE OnlyEndChanged(name)
      ]_vars

\* C14 witness: an extension was answered with success and the record of
\* its name stands next to the record of the other name.
C14_Witness ==
    /\ last.op = "server_renew" /\ last.res = "ok"
    /\ Named(servers, last.name) # {}
    /\ \E s \in servers : s.name # last.name

\* C15: a return for a name that has no record is answered with an error in
\* its first step, with no deletion in the cloud and no change of the tables.
Returns == {"server_return", "container_return"}
ReturnArrives(op, name) ==
    /\ ops' = ops + 1
    /\ \/ \E p \in Procs : proc[p] = Blank /\ proc'[p].op = op /\ proc'[p].name = name
       \/ AnsweredAtOnce(op, name)
RecordsOf(op) == IF op = "server_return" THEN servers ELSE containers
C15_ReturnOfUnknownName ==
    [][\A op \in Returns, name \in Names :
          ReturnArrives(op, name) /\ Named(RecordsOf(op), name) = {} =>
             /\ AnsweredAtOnce(op, name)
             /\ last'.res \in {"err", "bad"}
             /\ UNCHANGED <<db, cloud>>
      ]_vars

\* C15 witness: the first request was a server return with valid
\* credentials for a name without a record while the other name has one, and
\* it was answered with the error.
C15_Witness ==
    /\ last.op = "server_return" /\ last.res = "err"
    /\ ops = 1
    /\ Named(servers, last.name) = {}
    /\ servers # {}

\* C16: a step of a provisioning request removes a network or a flavor from
\* the cloud only if that request's own call created it.
C16_UndoOnlyOwnCreation ==
    [][\A p \in Procs :
          RentStep(p) =>
             /\ ~(cloudNets \subseteq cloudNets') => proc[p].crNet
             /\ ~(cloudFlavors \subseteq cloudFlavors') => proc[p].crFlv
      ]_vars

\* C17: a server provisioning request that ends in the step of the instance
\* and of its address, having found no instance of its name, leaves none.
C17_AddressFailureDeletesInstance ==
    [][\A p \in Procs :
          (/\ proc[p].pc = "sr_create" /\ proc'[p] = Blank
           /\ cloudSrv[<<proc[p].node, proc[p].name>>] = "none")
          => cloudSrv'[<<proc[p].node, proc[p].name>>] = "none"
      ]_vars

\* C18: a provisioning request removes a network or a flavor from the cloud
\* only when the instance it created is no longer there.
OwnInstanceThere(r) ==
    /\ r.crInst
    /\ IF r.op = "server_rent" THEN cloudSrv[<<r.node, r.name>>] # "none"
                                ELSE <<r.node, r.name>> \in cloudCtr
C18_InstanceUndoneFirst ==
    [][\A p \in Procs :
          (RentStep(p) /\ (~(cloudNets \subseteq cloudNets') \/ ~(cloudFlavors \subseteq cloudFlavors')))
          => ~OwnInstanceThere(proc[p])
      ]_vars

\* C19: the handler of a provisioning request calls the deletion of the
\* instance only if the request created the instance, and the deletion of the
\* flavor only if the request created the flavor.
C19_UndoOnlyCompletedSteps ==
    [][\A p \in Procs :
          proc'[p] # proc[p] =>
             /\ proc[p].pc \in {"sr_undo", "cr_undo_ctr"} => proc[p].crInst
             /\ proc[p].pc = "sr_flavor_undo" => proc[p].crFlv
      ]_vars

\* C20: a sweep removes a record only in its commit, after the cloud
\* deletion of every record it read had succeeded; each such deletion left
\* no instance in the cloud; and a sweep that a failed deletion ends removes
\* no record, so the record stays in the inventory with its date.
SweepStep == sw' # sw
C20_SweepRemovesOnlyDeleted ==
    [][SweepStep =>
          /\ (servers' # servers \/ containers' # containers) =>
                /\ sw.leftS = {} /\ sw.leftC = {} /\ sw'.pc = "idle"
                /\ \A r \in (servers \ servers') \cup (containers \ containers') :
                      r.id \in {d.id : d \in sw.delS \cup sw.delC}
          /\ sw'.pc = "run" =>
                /\ \A s \in sw.leftS \ sw'.leftS : cloudSrv'[<<s.node, s.name>>] = "none"
                /\ \A c \in sw.leftC \ sw'.leftC : <<c.node, c.name>> \notin cloudCtr'
          /\ sw'.pc = "crashed" => UNCHANGED <<servers, containers>>
      ]_vars

\* C20 witness: a sweep was ended by a failed deletion and an expired record
\* is still in the inventory.
C20_Witness ==
    /\ sw.pc = "crashed"
    /\ \E r \in servers \cup containers : r.end < sw.today

\* The rows a sweep has marked for deletion, servers and containers alike.
SweepMarked == sw.delS \cup sw.delC

\* C21: when a sweep commits, every non-default network and every custom
\* flavor named by a record it reclaimed, and left with no referring rental,
\* is gone from the cloud and from the inventory.
C21_SweepReleasesInfra ==
    [][(SweepEnds /\ sw'.pc = "idle") =>
          /\ \A d \in SweepMarked :
                (~IsDefaultNet(d.net) /\ d.net # NoNet /\ UsersAfter(d.net) = {}) =>
                    /\ <<d.node, d.net>> \notin cloudNets'
                    /\ <<d.node, d.net>> \notin nodeNetworks'
                    /\ d.net \notin networks'
          /\ \A d \in sw.delS :
                (~IsDefaultFlavor(d.flv) /\ {s \in servers' : s.flv = d.flv} = {}) =>
                    /\ <<d.node, d.flv>> \notin cloudFlavors'
                    /\ d.flv \notin flavors']_vars

\* C22: a failure while tearing down a record does not leave the sweep: no
\* step that handles a marked record ends the scheduler loop, so the
\* scheduler stays able to start its next sweep.
C22_TeardownFailureSwallowed ==
    [][(sw.pc = "run" /\ sw.leftS \cup sw.leftC # {} /\ SweepStep) =>
          sw'.pc = "run"]_vars

\* Worker p takes the step of server_rent in which network_isolation raises.
IsolationFails(p) ==
    /\ proc[p].pc = "sr_network"
    /\ proc'[p].pc = "sr_network_undo" /\ proc'[p].fault

\* Worker p leaves the handler entered after network_isolation raised.
IsolationFailureEnds(p) ==
    /\ proc[p].pc = "sr_network_undo" /\ proc[p].fault
    /\ proc'[p] # proc[p]

\* C23: when network_isolation raises, no link of the node to the network is
\* added to the session or written to the inventory, and the request ends
\* as a failed one, for servers and for containers.
C23_FailedIsolationAddsNoLink ==
    [][/\ \A p \in Procs :
             /\ IsolationFails(p) =>
                   ~proc'[p].pL /\ UNCHANGED <<nodeNetworks, cloudNets>>
             /\ IsolationFailureEnds(p) =>
                   /\ Free(p)' /\ UNCHANGED nodeNetworks
                   /\ last'.op = "server_rent" /\ last'.name = proc[p].name
                   /\ last'.res \in {"err", "crash"}
       /\ \A name \in Names :
             (AnsweredAtOnce("container_rent", name) /\ last'.fault) =>
                   last'.res = "crash" /\ UNCHANGED <<nodeNetworks, cloudNets>>
      ]_vars

C23_Witness ==
    \E p \in Procs :
       /\ proc[p].pc = "sr_network_undo" /\ proc[p].fault /\ ~proc[p].pL
       /\ <<proc[p].node, proc[p].net>> \notin nodeNetworks \cup cloudNets

\* C24: a server rental that succeeds with a custom flavor leaves the link of
\* its node to that flavor in the inventory, and a rental that finds the
\* link creates no flavor in the cloud.
C24_FlavorLinkRecorded ==
    [][\A p \in Procs :
          /\ (RentOk(p) /\ proc[p].op = "server_rent" /\ ~IsDefaultFlavor(proc[p].flv)) =>
                <<proc[p].node, proc[p].flv>> \in nodeFlavors'
          /\ (proc'[p].op = "server_rent" /\ proc[p].op # "server_rent"
              /\ <<proc'[p].node, proc'[p].flv>> \in nodeFlavors) =>
                UNCHANGED cloudFlavors
      ]_vars

\* No request and no sweep is between its first and its last step.
Quiescent == (\A p \in Procs : Free(p)) /\ sw.pc # "run"

\* C25: when nothing is in progress, a non-default network or a custom
\* flavor is in the cloud on a node only if the inventory links the node
\* to it.
C25_NoUnlinkedInfra ==
    Quiescent =>
       /\ \A k \in cloudNets : ~IsDefaultNet(k[2]) => k \in nodeNetworks
       /\ \A k \in cloudFlavors : ~IsDefaultFlavor(k[2]) => k \in nodeFlavors

\* C26: every committed rental on a node that names a non-default network
\* has the link of its node to that network, and the network is in the
\* cloud on that node.
C26_LiveNetworkKept ==
    \A r \in servers \cup containers :
       ~IsDefaultNet(r.net) =>
          /\ <<r.node, r.net>> \in nodeNetworks
          /\ <<r.node, r.net>> \in cloudNets

\* A sweep takes its first step.
SweepBegins == ops' = ops + 1 /\ sw' # sw

\* C27: a sweep begins only when no sweep is running: the previous one has
\* handled all the records it marked and has left the job.
C27_OneSweepAtATime ==
    [][SweepBegins =>
          /\ sw.pc = "idle" /\ sw.leftS = {} /\ sw.leftC = {}
          /\ sw'.pc = "run"]_vars

C27_Witness ==
    /\ ops = 2 /\ sw.pc = "run"
    /\ last = NoResponse
    /\ \A p \in Procs : Free(p)
    /\ sw.leftS \cup sw.leftC # {}

C29_ExtendedRentalSpared ==
    [][(sw.pc = "run" /\ SweepStep) =>
          \A r \in servers :
             r.end >= sw.today =>
                /\ r \in servers'
                /\ cloudSrv'[<<r.node, r.name>>] = cloudSrv[<<r.node, r.name>>]
      ]_vars

\* C30: a sweep that aborts leaves no expired server record on which the
\* cloud deletion of every later sweep raises: what the aborted sweep has
\* deleted in the cloud does not bar the record from being reclaimed later.
C30_AbortedSweepRetryable ==
    [][(sw.pc = "run" /\ sw'.pc = "crashed") =>
          \A r \in servers' :
             r.end < sw.today =>
                ~DeleteServerRaises(cloudSrv'[<<r.node, r.name>>])
      ]_vars

\* Worker p answers a server return; committed tells whether the deletion
\* of the record had been committed when the answer was given.
ServerReturnAnswers(p, committed) ==
    /\ proc[p].op = "server_return"
    /\ (proc[p].pc \in {"rt_flavor", "rt_network"}) = committed
    /\ proc'[p] = Blank

\* C31: a server return answers success exactly when it has deleted the
\* cloud instance and committed the deletion of the record; after that
\* commit it never answers with an error.
C31_ReturnSuccessIffCommitted ==
    [][/\ \A p \in Procs :
             /\ ServerReturnAnswers(p, TRUE) => last'.res = "ok"
             /\ ServerReturnAnswers(p, FALSE) => last'.res # "ok"
       /\ \A name \in Names :
             AnsweredAtOnce("server_return", name) => last'.res # "ok"
      ]_vars
====
